---- MODULE Spec2Model ----
(***************************************************************************)
(* Model of src/src/clientLogger.ts: the debug-logging observer of the     *)
(* FaunaDB client.  A JavaScript string is a sequence of one-character     *)
(* strings, so that concatenation, split and join are computed and not     *)
(* assumed.  A JSON value is a tagged record.                              *)
(***************************************************************************)
EXTENDS Integers, Sequences, FiniteSets, TLC

VARIABLES
    stack,      \* the observer invocations in progress, innermost last
    sinkLog,    \* the calls loggerFunction has received, in call order
    done,       \* the observer invocations that have completed, in completion order
    nextId,     \* the number of the next observer invocation
    probe       \* the last direct application of an exported or helper function

vars == <<stack, sinkLog, done, nextId, probe>>

(***************************************************************************)
(* Bounds of the model.                                                    *)
(***************************************************************************)
MaxLen == 4         \* longest text handed to _indent directly
MaxPairs == 2       \* most entries of a query mapping
MaxCalls == 3       \* observer invocations in one behaviour
MaxDepth == 2       \* nesting of observer invocations made from inside the sink

(***************************************************************************)
(* Text.                                                                   *)
(***************************************************************************)
NL == "\n"
QUOTE == "\""
BSLASH == "\\"

Digits == <<"0", "1", "2", "3", "4", "5", "6", "7", "8", "9">>

\* Number to string conversion of JavaScript, on integers.
RECURSIVE natText(_)
natText(n) ==
    IF n < 10 THEN <<Digits[n + 1]>>
    ELSE natText(n \div 10) \o <<Digits[(n % 10) + 1]>>

numText(n) == IF n < 0 THEN <<"-">> \o natText(0 - n) ELSE natText(n)

\* String.prototype.split with a one-character separator.
RECURSIVE splitFrom(_, _, _, _)
splitFrom(str, sep, i, cur) ==
    IF i > Len(str) THEN <<cur>>
    ELSE IF str[i] = sep THEN <<cur>> \o splitFrom(str, sep, i + 1, <<>>)
    ELSE splitFrom(str, sep, i + 1, Append(cur, str[i]))

split(str, sep) == splitFrom(str, sep, 1, <<>>)

\* Array.prototype.join.
RECURSIVE join(_, _)
join(parts, sep) ==
    IF parts = <<>> THEN <<>>
    ELSE IF Len(parts) = 1 THEN parts[1]
    ELSE parts[1] \o sep \o join(Tail(parts), sep)

(***************************************************************************)
(* JSON values.                                                            *)
(***************************************************************************)
JNull == [t |-> "null"]
JUndefined == [t |-> "undefined"]
JCyclic == [t |-> "cyclic"]          \* an object that refers to itself
JBool(b) == [t |-> "bool", v |-> b]
JNum(n) == [t |-> "num", v |-> n]
JStr(s) == [t |-> "str", v |-> s]
JArr(items) == [t |-> "arr", v |-> items]
JObj(pairs) == [t |-> "obj", v |-> pairs]   \* pairs: <<key, value>> in iteration order

\* A value JSON.stringify cannot render: a cycle anywhere in it.
RECURSIVE hasCycle(_)
hasCycle(v) ==
    CASE v.t = "cyclic" -> TRUE
      [] v.t = "arr" -> \E i \in 1..Len(v.v) : hasCycle(v.v[i])
      [] v.t = "obj" -> \E i \in 1..Len(v.v) : hasCycle(v.v[i][2])
      [] OTHER -> FALSE

escapeChar(c) ==
    CASE c = QUOTE -> <<BSLASH, QUOTE>>
      [] c = BSLASH -> <<BSLASH, BSLASH>>
      [] c = NL -> <<BSLASH, "n">>
      [] OTHER -> <<c>>

RECURSIVE escape(_)
escape(s) == IF s = <<>> THEN <<>> ELSE escapeChar(Head(s)) \o escape(Tail(s))

quote(s) == <<QUOTE>> \o escape(s) \o <<QUOTE>>

gap == <<" ", " ">>

\* The pretty serialization of a value without cycles, at indentation ind.
RECURSIVE stringify(_, _)
stringify(v, ind) ==
    CASE v.t = "null" -> <<"n", "u", "l", "l">>
      [] v.t = "bool" ->
            IF v.v THEN <<"t", "r", "u", "e">> ELSE <<"f", "a", "l", "s", "e">>
      [] v.t = "num" -> numText(v.v)
      [] v.t = "str" -> quote(v.v)
      [] v.t = "arr" ->
            IF v.v = <<>> THEN <<"[", "]">>
            ELSE <<"[", NL>>
                 \o join([i \in 1..Len(v.v) |->
                            ind \o gap \o stringify(v.v[i], ind \o gap)],
                         <<",", NL>>)
                 \o <<NL>> \o ind \o <<"]">>
      [] v.t = "obj" ->
            IF v.v = <<>> THEN <<"{", "}">>
            ELSE <<"{", NL>>
                 \o join([i \in 1..Len(v.v) |->
                            ind \o gap \o quote(v.v[i][1]) \o <<":", " ">>
                            \o stringify(v.v[i][2], ind \o gap)],
                         <<",", NL>>)
                 \o <<NL>> \o ind \o <<"}">>

\* json.toJSON(object, pretty): a text, or the failure of the serialization.
toJSON(object, pretty) ==
    IF object.t = "undefined" \/ hasCycle(object)
    THEN [ok |-> FALSE, text |-> <<>>]
    ELSE [ok |-> TRUE, text |-> stringify(object, <<>>)]

(***************************************************************************)
(* clientLogger.ts, lines 99-122: the helpers.                             *)
(***************************************************************************)
indentStr == <<" ", " ">>

\* A variant that indents after the first line break only (String.replace with
\* a string pattern).
_indentFirstBreakOnly(str) ==
    LET parts == split(str, NL)
    IN  IF Len(parts) = 1 THEN str
        ELSE parts[1] \o <<NL>> \o indentStr \o join(Tail(parts), <<NL>>)

_indent(str) == join(split(str, NL), <<NL>> \o indentStr)

\* A variant that renders a placeholder where the serialization fails.
_showJSONLenient(object) ==
    LET j == toJSON(object, TRUE)
    IN  IF j.ok THEN [ok |-> TRUE, text |-> _indent(j.text)]
        ELSE [ok |-> TRUE, text |-> <<"?">>]

_showJSON(object) ==
    LET j == toJSON(object, TRUE)
    IN  IF j.ok THEN [ok |-> TRUE, text |-> _indent(j.text)]
        ELSE [ok |-> FALSE, text |-> <<>>]

\* A query is null, undefined, or a mapping: its entries in iteration order.
QNull == [t |-> "null"]
QUndefined == [t |-> "undefined"]
QMap(pairs) == [t |-> "map", v |-> pairs]

\* A variant without the test for zero keys.
_queryStringNoEmptyTest(query) ==
    IF query.t = "null" \/ query.t = "undefined" THEN <<>>
    ELSE <<"?">> \o join([i \in 1..Len(query.v) |->
                            query.v[i][1] \o <<"=">> \o query.v[i][2]], <<"&">>)

_queryString(query) ==
    IF query.t = "null" \/ query.t = "undefined" THEN <<>>
    ELSE LET keys == [i \in 1..Len(query.v) |-> query.v[i][1]]
         IN  IF Len(keys) = 0 THEN <<>>
             ELSE LET pairs == [i \in 1..Len(keys) |->
                                  keys[i] \o <<"=">> \o query.v[i][2]]
                  IN  <<"?">> \o join(pairs, <<"&">>)

(***************************************************************************)
(* clientLogger.ts, lines 64-97: showRequestResult.                        *)
(***************************************************************************)
FaunaLabel == <<"F", "a", "u", "n", "a", " ">>
RequestLabel == <<" ", " ", "R", "e", "q", "u", "e", "s", "t", " ", "J", "S", "O", "N", ":", " ">>
HeadersLabel == <<" ", " ", "R", "e", "s", "p", "o", "n", "s", "e", " ", "h", "e", "a", "d", "e", "r", "s", ":", " ">>
ResponseLabel == <<" ", " ", "R", "e", "s", "p", "o", "n", "s", "e", " ", "J", "S", "O", "N", ":", " ">>
StatusOpen == <<" ", " ", "R", "e", "s", "p", "o", "n", "s", "e", " ", "(">>
LatencyLabel == <<")", ":", " ", "N", "e", "t", "w", "o", "r", "k", " ", "l", "a", "t", "e", "n", "c", "y", " ">>
MsLine == <<"m", "s", NL>>

\* let out = ''
outInit == <<>>

\* A variant that assigns instead of appending.
logAssign(out, str) == str

\* function log(str): out = out + str
log(out, str) == out \o str

\* A variant with the strict comparison !== undefined.
notUndefined(v) == v.t # "undefined"

\* A variant with the truthiness test if (requestContent).
truthy(v) ==
    /\ v.t # "null" /\ v.t # "undefined"
    /\ v.t = "num" => v.v # 0
    /\ v.t = "bool" => v.v
    /\ v.t = "str" => v.v # <<>>

\* requestContent != null
notNull(v) == v.t # "null" /\ v.t # "undefined"

\* One statement of the body: from the statement at pc with the text out
\* built so far, the next statement and the new text; pc "throw" when a
\* serialization failed there.
statement(r, pc, out) ==
    CASE pc = "L82" ->
            [pc |-> "L83",
             out |-> log(out, FaunaLabel \o r.method \o <<" ", "/">> \o r.path
                              \o _queryString(r.query) \o <<NL>>)]
      [] pc = "L83" ->
            IF notNull(r.requestContent)
            THEN LET j == _showJSON(r.requestContent)
                 IN  IF j.ok
                     THEN [pc |-> "L86",
                           out |-> log(out, RequestLabel \o j.text \o <<NL>>)]
                     ELSE [pc |-> "throw", out |-> out]
            ELSE [pc |-> "L86", out |-> out]
      [] pc = "L86" ->
            LET j == _showJSON(r.responseHeaders)
            IN  IF j.ok
                THEN [pc |-> "L87",
                      out |-> log(out, HeadersLabel \o j.text \o <<NL>>)]
                ELSE [pc |-> "throw", out |-> out]
      [] pc = "L87" ->
            LET j == _showJSON(r.responseContent)
            IN  IF j.ok
                THEN [pc |-> "L88",
                      out |-> log(out, ResponseLabel \o j.text \o <<NL>>)]
                ELSE [pc |-> "throw", out |-> out]
      [] pc = "L88" ->
            [pc |-> "L96",
             out |-> log(out, StatusOpen \o numText(r.statusCode) \o LatencyLabel
                              \o numText(r.timeTaken) \o MsLine)]

RenderPcs == {"L82", "L83", "L86", "L87", "L88"}

RECURSIVE runFrom(_, _, _)
runFrom(r, pc, out) ==
    IF pc = "L96" THEN [ok |-> TRUE, out |-> out]
    ELSE IF pc = "throw" THEN [ok |-> FALSE, out |-> <<>>]
    ELSE LET s == statement(r, pc, out) IN runFrom(r, s.pc, s.out)

\* The whole call: the string returned, or the failure thrown.
showRequestResult(requestResult) == runFrom(requestResult, "L82", outInit)

(***************************************************************************)
(* clientLogger.ts, lines 52-56: logger, and the observer it returns.      *)
(***************************************************************************)
\* A variant in which out is one variable of the module, not reset on entry.
enterSharedOut(stk, id, requestResult) ==
    Append(stk, [id |-> id, record |-> requestResult, pc |-> "L82",
                 out |-> IF stk = <<>> THEN outInit ELSE stk[Len(stk)].out])

\* The observer is entered with a record: a new activation of
\* showRequestResult with its own out.
enter(stk, id, requestResult) ==
    Append(stk, [id |-> id, record |-> requestResult, pc |-> "L82", out |-> outInit])

\* A variant that calls the sink a second time.
callSinkTwice(calls, id, out) ==
    Append(Append(calls, [id |-> id, arg |-> out]), [id |-> id, arg |-> out])

\* loggerFunction(showRequestResult(requestResult)): the call the sink receives.
callSink(calls, id, out) == Append(calls, [id |-> id, arg |-> out])

\* A variant that catches what the sink throws.
observerCatches(sinkResult) ==
    IF sinkResult.kind = "throw" THEN [kind |-> "return", value |-> "undefined"]
    ELSE sinkResult

\* return loggerFunction(...): how the observer completes, given how the
\* sink completed.
observerResult(sinkResult) == sinkResult

\* How a call completes: it returns a value or throws one.
NotCalled == [kind |-> "none", value |-> "none"]
SerializationError == [kind |-> "throw", value |-> "SerializationError"]

Top == stack[Len(stack)]
Pop == SubSeq(stack, 1, Len(stack) - 1)
SetTop(f) == [stack EXCEPT ![Len(stack)] = f]

Completed(f, rendered, sink, result) ==
    Append(done, [id |-> f.id, record |-> f.record, depth |-> Len(stack),
                  rendered |-> rendered, sink |-> sink, result |-> result])

(***************************************************************************)
(* The records and texts the operations are applied to.                    *)
(***************************************************************************)
GET == <<"G", "E", "T">>
POST == <<"P", "O", "S", "T">>
classes == <<"c", "l", "a", "s", "s", "e", "s">>
size == <<"s", "i", "z", "e">>
ts == <<"t", "s">>
ten == <<"1", "0">>
data == <<"d", "a", "t", "a">>
Fido == <<"F", "i", "d", "o">>
ctype == <<"c", "o", "n", "t", "e", "n", "t", "-", "t", "y", "p", "e">>
ref == <<"r", "e", "f">>
\* a text holding a line break followed by the request label
labelText == <<"x", NL>> \o RequestLabel \o <<"1">>
ampText == <<"a", "&", "b", "=", "c">>

SeqsUpTo(S, n) == UNION {[1..k -> S] : k \in 0..n}

IndentInputs == SeqsUpTo({"a", " ", NL}, MaxLen)

QueryKeys == {size, ts, <<"k">>}
QueryValues == {<<>>, ten, ampText, <<"v", NL, " ">>}
QueryMaps ==
    {QMap(p) : p \in {q \in SeqsUpTo(QueryKeys \X QueryValues, MaxPairs) :
                        \A i, j \in 1..Len(q) : i # j => q[i][1] # q[j][1]}}
Queries == {QNull, QUndefined} \cup QueryMaps

nested == JObj(<< <<data, JObj(<< <<<<"n">>, JStr(Fido)>> >>)>> >>)
mixed == JArr(<<JNum(1), JArr(<<JBool(TRUE)>>), JObj(<< <<<<"k">>, JNull>>, <<<<"j">>, JNum(12)>> >>)>>)

JsonValues ==
    {JNum(0), JBool(FALSE), JStr(<<>>), JObj(<<>>), JArr(<<>>), JNum(0 - 7),
     JStr(<<"a", QUOTE, NL, BSLASH, " ">>), JStr(labelText), nested, mixed}

RequestContents ==
    JsonValues \cup {JNull, JUndefined, JCyclic, JObj(<< <<data, JCyclic>> >>)}
HeaderValues == {JObj(<<>>), JObj(<< <<ctype, JStr(<<"j">>)>> >>), JCyclic}
ResponseContents ==
    {JNull, JObj(<< <<ref, JStr(labelText)>> >>), JArr(<<JCyclic>>), JUndefined}

Record(m, p, q, rq, h, rs, sc, tt) ==
    [method |-> m, path |-> p, query |-> q, requestContent |-> rq,
     responseHeaders |-> h, responseContent |-> rs, statusCode |-> sc,
     timeTaken |-> tt]

Records ==
    {Record(m, p, q, rq, h, rs, st[1], st[2]) :
        m \in {GET, POST}, p \in {<<>>, classes, labelText},
        q \in {QNull, QMap(<<>>), QMap(<< <<size, ten>>, <<ts, ampText>> >>),
               QMap(<< <<ts, labelText>> >>)},
        rq \in RequestContents, h \in HeaderValues, rs \in ResponseContents,
        st \in {<<200, 0>>, <<201, 13>>}}

okHeaders == JObj(<< <<ctype, JStr(<<"j">>)>> >>)

\* The records the observer is invoked with.
ObservedRecords ==
    {Record(POST, <<>>, QNull, nested, okHeaders, JNull, 201, 13),
     Record(GET, classes, QMap(<< <<size, ten>> >>), JNull, okHeaders,
            JStr(<<"r">>), 200, 7),
     Record(POST, <<>>, QNull, JCyclic, okHeaders, JNull, 500, 1),
     Record(POST, <<>>, QNull, JNum(0), okHeaders, JArr(<<JCyclic>>), 200, 2)}

\* What a sink may give back.
SinkValues == {"undefined", "v1"}

(***************************************************************************)
(* The observer and its sink as a state machine.                           *)
(***************************************************************************)
NoProbe == [fn |-> "none"]

Init ==
    /\ stack = <<>>
    /\ sinkLog = <<>>
    /\ done = <<>>
    /\ nextId = 1
    /\ probe = NoProbe

\* The client invokes the observer with a record.
Invoke(r) ==
    /\ stack = <<>>
    /\ nextId <= MaxCalls
    /\ stack' = enter(stack, nextId, r)
    /\ nextId' = nextId + 1
    /\ UNCHANGED <<sinkLog, done, probe>>

\* The sink, while it runs, invokes the observer again.
Reenter(r) ==
    /\ stack # <<>>
    /\ Top.pc = "sink"
    /\ Len(stack) < MaxDepth
    /\ nextId <= MaxCalls
    /\ stack' = enter(stack, nextId, r)
    /\ nextId' = nextId + 1
    /\ UNCHANGED <<sinkLog, done, probe>>

\* The innermost showRequestResult executes its next statement; a failed
\* serialization leaves showRequestResult and the observer.
Render ==
    /\ stack # <<>>
    /\ Top.pc \in RenderPcs
    /\ LET s == statement(Top.record, Top.pc, Top.out)
       IN  IF s.pc = "throw"
           THEN /\ stack' = Pop
                /\ done' = Completed(Top, FALSE, NotCalled, SerializationError)
           ELSE /\ stack' = SetTop([Top EXCEPT !.pc = s.pc, !.out = s.out])
                /\ done' = done
    /\ UNCHANGED <<sinkLog, nextId, probe>>

\* showRequestResult has returned out: the observer calls the sink with it.
CallSink ==
    /\ stack # <<>>
    /\ Top.pc = "L96"
    /\ sinkLog' = callSink(sinkLog, Top.id, Top.out)
    /\ stack' = SetTop([Top EXCEPT !.pc = "sink"])
    /\ UNCHANGED <<done, nextId, probe>>

\* The sink returns v.
SinkReturn(v) ==
    /\ stack # <<>>
    /\ Top.pc = "sink"
    /\ stack' = Pop
    /\ LET sunk == [kind |-> "return", value |-> v]
       IN  done' = Completed(Top, TRUE, sunk, observerResult(sunk))
    /\ UNCHANGED <<sinkLog, nextId, probe>>

\* The sink throws.
SinkThrow ==
    /\ stack # <<>>
    /\ Top.pc = "sink"
    /\ stack' = Pop
    /\ LET sunk == [kind |-> "throw", value |-> "SinkError"]
       IN  done' = Completed(Top, TRUE, sunk, observerResult(sunk))
    /\ UNCHANGED <<sinkLog, nextId, probe>>

Next ==
    \/ \E r \in ObservedRecords : Invoke(r)
    \/ \E r \in ObservedRecords : Reenter(r)
    \/ Render
    \/ CallSink
    \/ \E v \in SinkValues : SinkReturn(v)
    \/ SinkThrow

Spec == Init /\ [][Next]_vars

(***************************************************************************)
(* The exported function and the helpers applied directly.                 *)
(***************************************************************************)
ApplyIndent(s) ==
    /\ probe = NoProbe
    /\ probe' = [fn |-> "_indent", arg |-> s, res |-> _indent(s)]
    /\ UNCHANGED <<stack, sinkLog, done, nextId>>

ApplyQueryString(q) ==
    /\ probe = NoProbe
    /\ probe' = [fn |-> "_queryString", arg |-> q, res |-> _queryString(q)]
    /\ UNCHANGED <<stack, sinkLog, done, nextId>>

ApplyShowRequestResult(r) ==
    /\ probe = NoProbe
    /\ probe' = [fn |-> "showRequestResult", arg |-> r, res |-> showRequestResult(r)]
    /\ UNCHANGED <<stack, sinkLog, done, nextId>>

NextIndent == \E s \in IndentInputs : ApplyIndent(s)
SpecIndent == Init /\ [][NextIndent]_vars

NextQuery == \E q \in Queries : ApplyQueryString(q)
SpecQuery == Init /\ [][NextQuery]_vars

NextShow == \E r \in Records : ApplyShowRequestResult(r)
SpecShow == Init /\ [][NextShow]_vars

(***************************************************************************)
(* Reading a text, for the statements below.                               *)
(***************************************************************************)
\* The number of line breaks among the first n characters of t.
NlCount(t, n) == Cardinality({i \in 1..n : t[i] = NL})

LineCount(t) == NlCount(t, Len(t)) + 1

\* The k-th line of t, without its line break.
LineStart(t, k) ==
    IF k = 1 THEN 1
    ELSE 1 + CHOOSE i \in 1..Len(t) : t[i] = NL /\ NlCount(t, i) = k - 1
LineEnd(t, k) ==
    IF k = LineCount(t) THEN Len(t)
    ELSE (CHOOSE i \in 1..Len(t) : t[i] = NL /\ NlCount(t, i) = k) - 1
Line(t, k) == SubSeq(t, LineStart(t, k), LineEnd(t, k))

RECURSIVE LeadingSpaces(_)
LeadingSpaces(l) ==
    IF l # <<>> /\ Head(l) = " " THEN 1 + LeadingSpaces(Tail(l)) ELSE 0

StartsWith(t, prefix) ==
    Len(t) >= Len(prefix) /\ SubSeq(t, 1, Len(prefix)) = prefix

EndsWith(t, suffix) ==
    Len(t) >= Len(suffix) /\ SubSeq(t, Len(t) - Len(suffix) + 1, Len(t)) = suffix

HasNewline(t) == \E i \in 1..Len(t) : t[i] = NL

(***************************************************************************)
(* C10: _indent(s) is s with exactly two spaces inserted after every line  *)
(* break and nothing else changed: every character of s is kept, in order, *)
(* shifted by two places per line break before it; the first line is       *)
(* unchanged, the number of lines is the same, and every later line has    *)
(* two more leading spaces than the same line of s.                        *)
(***************************************************************************)
C10_IndentInsertsTwoSpaces ==
    probe.fn = "_indent" =>
        LET s == probe.arg
            r == probe.res
        IN  /\ Len(r) = Len(s) + 2 * NlCount(s, Len(s))
            /\ \A i \in 1..Len(s) :
                  LET at == i + 2 * NlCount(s, i - 1)
                  IN  /\ r[at] = s[i]
                      /\ s[i] = NL => r[at + 1] = " " /\ r[at + 2] = " "
            /\ LineCount(r) = LineCount(s)
            /\ Line(r, 1) = Line(s, 1)
            /\ \A k \in 2..LineCount(s) :
                  /\ Line(r, k) = <<" ", " ">> \o Line(s, k)
                  /\ LeadingSpaces(Line(r, k)) >= LeadingSpaces(Line(s, k)) + 2

\* A text of three lines, the last of them already indented, has been indented.
C10_Witness ==
    /\ probe.fn = "_indent"
    /\ probe.arg = <<"a", NL, NL, " ">>
    /\ probe.res = <<"a", NL, " ", " ", NL, " ", " ", " ">>

(***************************************************************************)
(* C6: the query suffix of a mapping with entries is "?" followed by one   *)
(* key=value per entry, in iteration order, the values verbatim, with "&"  *)
(* between them; for null, undefined and a mapping without keys it is      *)
(* empty.                                                                  *)
(***************************************************************************)
\* Where the i-th pair starts in the suffix.
RECURSIVE PairOffset(_, _)
PairOffset(pairs, i) ==
    IF i = 1 THEN 2
    ELSE PairOffset(pairs, i - 1) + Len(pairs[i - 1][1]) + 1
         + Len(pairs[i - 1][2]) + 1

C6_QuerySuffix ==
    probe.fn = "_queryString" =>
        LET q == probe.arg
            r == probe.res
        IN  IF q.t # "map" \/ Len(q.v) = 0 THEN r = <<>>
            ELSE LET n == Len(q.v)
                 IN  /\ r[1] = "?"
                     /\ Len(r) = PairOffset(q.v, n) + Len(q.v[n][1]) + 1
                                 + Len(q.v[n][2]) - 1
                     /\ \A i \in 1..n :
                           LET from == PairOffset(q.v, i)
                               pair == q.v[i][1] \o <<"=">> \o q.v[i][2]
                           IN  /\ SubSeq(r, from, from + Len(pair) - 1) = pair
                               /\ i < n => r[from + Len(pair)] = "&"

\* A mapping of two entries, one value holding "&" and "=", has been rendered.
C6_Witness ==
    /\ probe.fn = "_queryString"
    /\ probe.arg = QMap(<< <<size, ten>>, <<ts, ampText>> >>)
    /\ probe.res = <<"?">> \o size \o <<"=">> \o ten \o <<"&">> \o ts \o <<"=">> \o ampText

(***************************************************************************)
(* C3: the text showRequestResult returns is the header line, the optional *)
(* request line, the response headers line, the response JSON line and the *)
(* status line, concatenated in this order; the last four start with       *)
(* exactly two spaces, the three response segments are there for every     *)
(* record, and the text ends with "ms" and a line break.                   *)
(***************************************************************************)
\* The position at which segment seg lies in t, when the text before it has
\* length before.
SegmentAt(t, before, seg) ==
    /\ Len(t) >= before + Len(seg)
    /\ SubSeq(t, before + 1, before + Len(seg)) = seg

TwoSpacesExactly(seg) == Len(seg) >= 3 /\ seg[1] = " " /\ seg[2] = " " /\ seg[3] # " "

C3_FixedOrderConcatenation ==
    (probe.fn = "showRequestResult" /\ probe.res.ok) =>
        LET r == probe.arg
            t == probe.res.out
            header == FaunaLabel \o r.method \o <<" ", "/">> \o r.path
                      \o _queryString(r.query) \o <<NL>>
            request == IF r.requestContent.t \in {"null", "undefined"} THEN <<>>
                       ELSE RequestLabel \o _showJSON(r.requestContent).text \o <<NL>>
            headers == HeadersLabel \o _showJSON(r.responseHeaders).text \o <<NL>>
            response == ResponseLabel \o _showJSON(r.responseContent).text \o <<NL>>
            status == StatusOpen \o numText(r.statusCode) \o LatencyLabel
                      \o numText(r.timeTaken) \o <<"m", "s", NL>>
        IN  /\ SegmentAt(t, 0, header)
            /\ SegmentAt(t, Len(header), request)
            /\ SegmentAt(t, Len(header) + Len(request), headers)
            /\ SegmentAt(t, Len(header) + Len(request) + Len(headers), response)
            /\ SegmentAt(t, Len(header) + Len(request) + Len(headers) + Len(response),
                         status)
            /\ Len(t) = Len(header) + Len(request) + Len(headers) + Len(response)
                        + Len(status)
            /\ request # <<>> => TwoSpacesExactly(request)
            /\ TwoSpacesExactly(headers)
            /\ TwoSpacesExactly(response)
            /\ TwoSpacesExactly(status)
            /\ EndsWith(t, <<"m", "s", NL>>)

\* A record with a request body, a query and a nested response has been rendered.
C3_Witness ==
    /\ probe.fn = "showRequestResult"
    /\ probe.res.ok
    /\ probe.arg.requestContent = nested
    /\ probe.arg.query = QMap(<< <<size, ten>>, <<ts, ampText>> >>)
    /\ probe.arg.responseContent = JObj(<< <<ref, JStr(labelText)>> >>)
    /\ probe.arg.statusCode = 201
    /\ EndsWith(probe.res.out, <<"1", "3", "m", "s", NL>>)

(***************************************************************************)
(* C4: a rendered record without a request body has no line that begins    *)
(* with the two-space-indented label "Request JSON:".                      *)
(***************************************************************************)
RequestLinePrefix == SubSeq(RequestLabel, 1, Len(RequestLabel) - 1)

\* The lines of t that begin with prefix.
LinesBeginning(t, prefix) ==
    {k \in 1..LineCount(t) : StartsWith(Line(t, k), prefix)}

\* No line break in the texts the header line inserts verbatim.
HeaderOnOneLine(r) ==
    /\ ~HasNewline(r.method)
    /\ ~HasNewline(r.path)
    /\ r.query.t = "map" =>
          \A i \in 1..Len(r.query.v) :
              ~HasNewline(r.query.v[i][1]) /\ ~HasNewline(r.query.v[i][2])

\* C4 as claimed: for every record without a request body, whatever its
\* method, path, query, response headers and response content, no line of
\* the rendering begins with "  Request JSON:".
C4_NoRequestLineWhateverTheRest ==
    (/\ probe.fn = "showRequestResult"
     /\ probe.res.ok
     /\ probe.arg.requestContent.t \in {"null", "undefined"})
        => LinesBeginning(probe.res.out, RequestLinePrefix) = {}

\* C4 as amended: for every record without a request body whose method, path
\* and query keys and values hold no line break, whatever its response
\* headers and response content, no line of the rendering begins with
\* "  Request JSON:".
C4_NoRequestLineWhenHeaderOnOneLine ==
    (/\ probe.fn = "showRequestResult"
     /\ probe.res.ok
     /\ probe.arg.requestContent.t \in {"null", "undefined"}
     /\ HeaderOnOneLine(probe.arg))
        => LinesBeginning(probe.res.out, RequestLinePrefix) = {}

\* A record with a null request body, and with a response string that holds
\* a line break followed by the label, has been rendered.
C4_Witness ==
    /\ probe.fn = "showRequestResult"
    /\ probe.res.ok
    /\ probe.arg.requestContent = JNull
    /\ HeaderOnOneLine(probe.arg)
    /\ probe.arg.query # QNull
    /\ probe.arg.responseContent = JObj(<< <<ref, JStr(labelText)>> >>)
    /\ LinesBeginning(probe.res.out, HeadersLabel) = {2}

(***************************************************************************)
(* Reading JSON text back: the grammar of JSON, with space and line break  *)
(* as the white space between tokens.  A line break inside a string        *)
(* literal is an error, as in JSON.                                        *)
(***************************************************************************)
At(t, p) == IF p >= 1 /\ p <= Len(t) THEN t[p] ELSE "EOF"

Unparsed == [ok |-> FALSE, v |-> JNull, p |-> 0]
Parsed(v, p) == [ok |-> TRUE, v |-> v, p |-> p]

RECURSIVE SkipSpace(_, _)
SkipSpace(t, p) == IF At(t, p) \in {" ", NL} THEN SkipSpace(t, p + 1) ELSE p

LiteralAt(t, p, lit) ==
    p + Len(lit) - 1 <= Len(t) /\ SubSeq(t, p, p + Len(lit) - 1) = lit

IsDigit(c) == \E d \in 1..10 : Digits[d] = c
DigitValue(c) == (CHOOSE d \in 1..10 : Digits[d] = c) - 1

\* The characters of a string literal from p, after its opening quote.
RECURSIVE ParseChars(_, _, _)
ParseChars(t, p, acc) ==
    LET c == At(t, p)
    IN  IF c = "EOF" \/ c = NL THEN Unparsed
        ELSE IF c = QUOTE THEN Parsed(acc, p + 1)
        ELSE IF c = BSLASH
             THEN LET e == At(t, p + 1)
                  IN  IF e = "n" THEN ParseChars(t, p + 2, Append(acc, NL))
                      ELSE IF e = QUOTE \/ e = BSLASH
                           THEN ParseChars(t, p + 2, Append(acc, e))
                           ELSE Unparsed
        ELSE ParseChars(t, p + 1, Append(acc, c))

RECURSIVE ParseDigits(_, _, _)
ParseDigits(t, p, acc) ==
    IF IsDigit(At(t, p)) THEN ParseDigits(t, p + 1, 10 * acc + DigitValue(At(t, p)))
    ELSE Parsed(acc, p)

ParseNumber(t, p) ==
    IF At(t, p) = "-"
    THEN IF IsDigit(At(t, p + 1))
         THEN LET n == ParseDigits(t, p + 1, 0) IN Parsed(JNum(0 - n.v), n.p)
         ELSE Unparsed
    ELSE LET n == ParseDigits(t, p, 0) IN Parsed(JNum(n.v), n.p)

RECURSIVE ParseValue(_, _)
RECURSIVE ParseItems(_, _, _)
RECURSIVE ParseMembers(_, _, _)

ParseValue(t, p0) ==
    LET p == SkipSpace(t, p0)
        c == At(t, p)
    IN  CASE LiteralAt(t, p, <<"n", "u", "l", "l">>) -> Parsed(JNull, p + 4)
          [] LiteralAt(t, p, <<"t", "r", "u", "e">>) -> Parsed(JBool(TRUE), p + 4)
          [] LiteralAt(t, p, <<"f", "a", "l", "s", "e">>) -> Parsed(JBool(FALSE), p + 5)
          [] c = QUOTE ->
                LET str == ParseChars(t, p + 1, <<>>)
                IN  IF str.ok THEN Parsed(JStr(str.v), str.p) ELSE Unparsed
          [] c = "[" ->
                LET q == SkipSpace(t, p + 1)
                IN  IF At(t, q) = "]" THEN Parsed(JArr(<<>>), q + 1)
                    ELSE ParseItems(t, q, <<>>)
          [] c = "{" ->
                LET q == SkipSpace(t, p + 1)
                IN  IF At(t, q) = "}" THEN Parsed(JObj(<<>>), q + 1)
                    ELSE ParseMembers(t, q, <<>>)
          [] c = "-" \/ IsDigit(c) -> ParseNumber(t, p)
          [] OTHER -> Unparsed

ParseItems(t, p, acc) ==
    LET e == ParseValue(t, p)
    IN  IF ~e.ok THEN Unparsed
        ELSE LET q == SkipSpace(t, e.p)
             IN  IF At(t, q) = "," THEN ParseItems(t, q + 1, Append(acc, e.v))
                 ELSE IF At(t, q) = "]" THEN Parsed(JArr(Append(acc, e.v)), q + 1)
                 ELSE Unparsed

ParseMembers(t, p, acc) ==
    LET q0 == SkipSpace(t, p)
    IN  IF At(t, q0) # QUOTE THEN Unparsed
        ELSE LET k == ParseChars(t, q0 + 1, <<>>)
             IN  IF ~k.ok THEN Unparsed
                 ELSE LET q1 == SkipSpace(t, k.p)
                      IN  IF At(t, q1) # ":" THEN Unparsed
                          ELSE LET e == ParseValue(t, q1 + 1)
                               IN  IF ~e.ok THEN Unparsed
                                   ELSE LET q == SkipSpace(t, e.p)
                                            all == Append(acc, <<k.v, e.v>>)
                                        IN  IF At(t, q) = ","
                                            THEN ParseMembers(t, q + 1, all)
                                            ELSE IF At(t, q) = "}"
                                            THEN Parsed(JObj(all), q + 1)
                                            ELSE Unparsed

\* The value a whole text denotes.
ParseJSON(t) ==
    LET e == ParseValue(t, 1)
    IN  IF e.ok /\ SkipSpace(t, e.p) = Len(t) + 1 THEN e ELSE Unparsed

(***************************************************************************)
(* C5: a rendered record with a request body, falsy bodies included, has   *)
(* exactly one "Request JSON:" block, directly after the header line and   *)
(* before "Response headers:", and the JSON of the block parses back to    *)
(* the request body.                                                       *)
(***************************************************************************)
HeadersLinePrefix == SubSeq(HeadersLabel, 1, Len(HeadersLabel) - 1)

Min(S) == CHOOSE x \in S : \A y \in S : x <= y

\* The text of lines from..to of t, joined by line breaks.
RECURSIVE LinesText(_, _, _)
LinesText(t, from, to) ==
    IF from > to THEN <<>>
    ELSE IF from = to THEN Line(t, from)
    ELSE Line(t, from) \o <<NL>> \o LinesText(t, from + 1, to)

\* The block is on line 2, the first later label line is that of the response
\* headers, and what lies between the label and that line is the body's JSON.
OneRequestBlock(t, body) ==
    /\ LinesBeginning(t, RequestLinePrefix) = {2}
    /\ StartsWith(Line(t, 2), RequestLabel)
    /\ \E k \in LinesBeginning(t, HeadersLinePrefix) : k > 2
    /\ LET h == Min({k \in LinesBeginning(t, HeadersLinePrefix) : k > 2})
           block == LinesText(t, 2, h - 1)
           payload == SubSeq(block, Len(RequestLabel) + 1, Len(block))
           back == ParseJSON(payload)
       IN  back.ok /\ back.v = body

\* C5 as claimed: every record with a request body.
C5_OneRequestBlockRoundTrip ==
    (/\ probe.fn = "showRequestResult"
     /\ probe.res.ok
     /\ probe.arg.requestContent.t \notin {"null", "undefined"})
        => OneRequestBlock(probe.res.out, probe.arg.requestContent)

\* C5 as amended: every record with a request body whose method, path and
\* query keys and values hold no line break.
C5_OneRequestBlockWhenHeaderOnOneLine ==
    (/\ probe.fn = "showRequestResult"
     /\ probe.res.ok
     /\ probe.arg.requestContent.t \notin {"null", "undefined"}
     /\ HeaderOnOneLine(probe.arg))
        => OneRequestBlock(probe.res.out, probe.arg.requestContent)

\* A record whose request body is a string with a quote, a line break and a
\* backslash has been rendered, and the block parses back to that string.
C5_Witness ==
    /\ probe.fn = "showRequestResult"
    /\ probe.res.ok
    /\ HeaderOnOneLine(probe.arg)
    /\ probe.arg.requestContent = JStr(<<"a", QUOTE, NL, BSLASH, " ">>)
    /\ OneRequestBlock(probe.res.out, probe.arg.requestContent)

(***************************************************************************)
(* Reading the history of the observer, for the statements below.          *)
(***************************************************************************)
\* The record of invocation id, completed or in progress.
RecordOf(id) ==
    IF \E i \in 1..Len(done) : done[i].id = id
    THEN done[CHOOSE i \in 1..Len(done) : done[i].id = id].record
    ELSE stack[CHOOSE i \in 1..Len(stack) : stack[i].id = id].record

\* The calls the sink received from invocation id.
CallsOf(id) == {k \in 1..Len(sinkLog) : sinkLog[k].id = id}

\* A value whose serialization fails.
Unserializable(v) == v.t = "undefined" \/ hasCycle(v)

\* A record one of whose serializations fails.
FailsToRender(r) ==
    \/ r.requestContent.t \notin {"null", "undefined"} /\ Unserializable(r.requestContent)
    \/ Unserializable(r.responseHeaders)
    \/ Unserializable(r.responseContent)

(***************************************************************************)
(* C1: an invocation of the observer whose rendering succeeds has called   *)
(* the sink exactly once by the time it completes, with the one argument   *)
(* showRequestResult(record); after n such invocations the sink has been   *)
(* called n times, in the order of the invocations.                        *)
(***************************************************************************)
C1_SinkOncePerInvocation ==
    /\ \A i \in 1..Len(done) :
          ~FailsToRender(done[i].record) =>
              /\ Cardinality(CallsOf(done[i].id)) = 1
              /\ \A k \in CallsOf(done[i].id) :
                    sinkLog[k] = [id |-> done[i].id,
                                  arg |-> showRequestResult(done[i].record).out]
    /\ stack = <<>> =>
          Len(sinkLog) = Cardinality({i \in 1..Len(done) :
                                         ~FailsToRender(done[i].record)})
    /\ \A k, l \in 1..Len(sinkLog) : k < l => sinkLog[k].id < sinkLog[l].id

\* Three invocations have completed, one of them made from inside the sink,
\* all rendered, and the sink has been called three times.
C1_Witness ==
    /\ stack = <<>>
    /\ Len(done) = 3
    /\ \A i \in 1..3 : ~FailsToRender(done[i].record)
    /\ \E i \in 1..3 : done[i].depth = 2
    /\ Len(sinkLog) = 3

(***************************************************************************)
(* C2: when a serialization fails while a record is rendered, the failure  *)
(* leaves showRequestResult and the observer, and the sink is not called   *)
(* for that record: it never receives the text built before the failure.   *)
(***************************************************************************)
C2_NoSinkCallOnSerializationFailure ==
    /\ \A i \in 1..Len(done) :
          FailsToRender(done[i].record) =>
              /\ done[i].result = SerializationError
              /\ done[i].sink = NotCalled
              /\ CallsOf(done[i].id) = {}
    /\ \A k \in 1..Len(sinkLog) :
          /\ ~FailsToRender(RecordOf(sinkLog[k].id))
          /\ EndsWith(sinkLog[k].arg, <<"m", "s", NL>>)

\* An invocation whose request body was rendered and whose response content
\* then failed has completed, after an invocation that reached the sink.
C2_Witness ==
    /\ Len(done) >= 2
    /\ \E i \in 1..Len(done) :
          /\ Unserializable(done[i].record.responseContent)
          /\ done[i].record.requestContent = JNum(0)
          /\ done[i].result = SerializationError
          /\ CallsOf(done[i].id) = {}
    /\ Len(sinkLog) >= 1

(***************************************************************************)
(* C7: what the observer gives back to its caller does not depend on what  *)
(* the sink returned: two invocations with the same record whose sinks     *)
(* both returned complete alike.                                           *)
(***************************************************************************)
C7_ResultIndependentOfSinkReturn ==
    \A i, j \in 1..Len(done) :
        (/\ done[i].record = done[j].record
         /\ done[i].sink.kind = "return"
         /\ done[j].sink.kind = "return")
            => done[i].result = done[j].result

(***************************************************************************)
(* C8: when the sink throws, the observer neither catches nor retries: the *)
(* invocation completes by throwing what the sink threw, with the sink     *)
(* called exactly once for it, and every later invocation behaves as it    *)
(* does without an earlier failure.                                        *)
(***************************************************************************)
\* The behaviour of an invocation on its own.
Unaffected(d) ==
    IF FailsToRender(d.record)
    THEN d.result = SerializationError /\ CallsOf(d.id) = {}
    ELSE /\ Cardinality(CallsOf(d.id)) = 1
         /\ \A k \in CallsOf(d.id) :
               sinkLog[k].arg = showRequestResult(d.record).out
         /\ d.sink.kind \in {"return", "throw"}
         /\ d.result.kind = d.sink.kind

C8_SinkFailurePropagates ==
    \A i \in 1..Len(done) :
        done[i].sink.kind = "throw" =>
            /\ done[i].result = [kind |-> "throw", value |-> "SinkError"]
            /\ Cardinality(CallsOf(done[i].id)) = 1
            /\ \A j \in 1..Len(done) :
                  done[j].id > done[i].id => Unaffected(done[j])

\* The sink threw in the first invocation, and a later invocation of the same
\* record has reached the sink and returned.
C8_Witness ==
    /\ Len(done) >= 2
    /\ done[1].id = 1
    /\ done[1].sink.kind = "throw"
    /\ done[1].result.kind = "throw"
    /\ \E j \in 2..Len(done) :
          /\ done[j].record = done[1].record
          /\ done[j].sink.kind = "return"
          /\ Cardinality(CallsOf(done[j].id)) = 1

(***************************************************************************)
(* C9: rendering keeps nothing from one call to the next: in every         *)
(* sequence and nesting of invocations, the text an invocation hands to    *)
(* the sink is that of its own record alone, so that invocations of the    *)
(* same record hand over the same text.                                    *)
(***************************************************************************)
C9_RenderingKeepsNoState ==
    /\ \A i \in 1..Len(stack) :
          stack[i].pc \in {"L96", "sink"} =>
              stack[i].out = showRequestResult(stack[i].record).out
    /\ \A i \in 1..Len(stack) :
          (stack[i].pc \in RenderPcs \ {"L82"}) =>
              StartsWith(stack[i].out,
                         FaunaLabel \o stack[i].record.method \o <<" ", "/">>)
    /\ \A k \in 1..Len(sinkLog) :
          sinkLog[k].arg = showRequestResult(RecordOf(sinkLog[k].id)).out
    /\ \A k, l \in 1..Len(sinkLog) :
          RecordOf(sinkLog[k].id) = RecordOf(sinkLog[l].id)
              => sinkLog[k].arg = sinkLog[l].arg

\* From inside the sink of an invocation, the observer has been invoked with
\* the same record and has reached the sink too, with the same text.
C9_Witness ==
    /\ Len(stack) = 2
    /\ stack[1].pc = "sink"
    /\ stack[2].pc = "sink"
    /\ stack[1].record = stack[2].record
    /\ Len(sinkLog) = 2
    /\ sinkLog[1].arg = sinkLog[2].arg
    /\ sinkLog[1].id # sinkLog[2].id

====
